---- MODULE Spec2Model ----
(***************************************************************************)
(* Model of the psql-shell read-eval loop (src/src/cli.ts).                *)
(*                                                                         *)
(* Strings are sequences of one-character strings, so that trim,           *)
(* startsWith, endsWith, replace and the \c regular expression are         *)
(* computed on characters as the code computes them.                       *)
(*                                                                         *)
(* One step of the model is one turn of the Node.js event loop: a callback *)
(* (a line arriving, a query or connect settling) with every microtask it  *)
(* schedules.  `ops' and `out' hold what that one turn did to the          *)
(* collaborators (pg, knex, readline) and wrote to the terminal, in order. *)
(***************************************************************************)
EXTENDS Integers, Sequences, FiniteSets, TLC

\* ------------------------------------------------------------------ bounds
MaxLines == 3       \* input lines the user enters in one session
MaxInFlight == 2    \* the user stops typing while this many commands are pending
MaxTables == 1      \* tables the server reports in the public schema

\* --------------------------------------------------------------- characters
BS == "\\"
NL == "\n"
Whitespace == {" ", NL}
WordChars == {"q", "c", "l", "d", "s", "t", "u", "x", "k", "n", "e", "-", "_"}

\* ------------------------------------------------------- string operations
StartsWith(s, p) == Len(s) >= Len(p) /\ SubSeq(s, 1, Len(p)) = p

\* endsWith compared one character too early
EndsWithShifted(s, p) ==
  Len(s) > Len(p) /\ SubSeq(s, Len(s) - Len(p), Len(s) - 1) = p

EndsWith(s, p) == Len(s) >= Len(p) /\ SubSeq(s, Len(s) - Len(p) + 1, Len(s)) = p

RECURSIVE TrimStart(_)
TrimStart(s) ==
  IF s # <<>> /\ Head(s) \in Whitespace THEN TrimStart(Tail(s)) ELSE s

RECURSIVE TrimEnd(_)
TrimEnd(s) ==
  IF s # <<>> /\ s[Len(s)] \in Whitespace
    THEN TrimEnd(SubSeq(s, 1, Len(s) - 1))
    ELSE s

Trim(s) == TrimEnd(TrimStart(s))

\* positions at which p occurs in s
Occurrences(s, p) ==
  {i \in 1..(Len(s) - Len(p) + 1) : SubSeq(s, i, i + Len(p) - 1) = p}

Min(S) == CHOOSE m \in S : \A n \in S : m <= n

\* s.replace(p, '') with a string pattern: the first occurrence only
RemoveFirst(s, p) ==
  IF Occurrences(s, p) = {} THEN s
  ELSE LET i == Min(Occurrences(s, p))
       IN SubSeq(s, 1, i - 1) \o SubSeq(s, i + Len(p), Len(s))

\* the longest run of word characters of s starting at position i
RECURSIVE WordRun(_, _)
WordRun(s, i) ==
  IF i <= Len(s) /\ s[i] \in WordChars THEN <<s[i]>> \o WordRun(s, i + 1) ELSE <<>>

\* text.match(/\\c ([\w-_]+)/)?.[1] : the leftmost match anywhere in the
\* text, the group greedy; <<>> stands for undefined
MatchDb(s) ==
  LET hits == {i \in Occurrences(s, <<BS, "c", " ">>) : WordRun(s, i + 3) # <<>>}
  IN IF hits = {} THEN <<>> ELSE WordRun(s, Min(hits) + 3)

\* the table name as it would be without the .trim() of line 248
TableNameUntrimmed(s) == RemoveFirst(RemoveFirst(s, <<BS, "d">>), <<";">>)

\* text.replace('\\d', '').replace(';', '').trim()
TableNameOf(s) == Trim(RemoveFirst(RemoveFirst(s, <<BS, "d">>), <<";">>))

\* ------------------------------------------------------------------ inputs
InitialDatabase == <<"s">>
OtherDatabase == <<"x">>
TableNames == <<"t", "u", "x", "e", "n", "k">>
\* the tables of the public schema, in the order the server enumerates them
TableList == [i \in 1..Len(TableNames) |-> <<TableNames[i]>>]

InputLines ==
  { <<>>,
    <<BS, "q">>,
    <<BS, "c">>,
    <<BS, "c", " ">> \o OtherDatabase,
    <<BS, "l">>,
    <<BS, "d", "+">>,
    <<BS, "d">>,
    <<BS, "d", " ", "t">>,
    <<"s">>,
    <<"s", ";">>,
    <<"k", "n", "e", "x", ";">> }

\* ------------------------------------------------------------------- state
VARIABLES
  mainPc,     \* "connecting" | "loop" | "failed" : position of main()
  io,         \* "open" | "closed" : the readline interface
  asking,     \* an io.question of loop() is outstanding
  ended,      \* end() has run
  text,       \* the closure variable `text'
  database,   \* the closure variable `database'
  clients,    \* every pg.Client created: [db, st, ends]
  cur,        \* index in clients of the client clientDefer resolves to, 0 while pending
  knex,       \* <<>> while undefined, else <<[db, destroyed]>>
  tasks,      \* the onLine invocations suspended at an await
  nLines,     \* lines received so far
  line,       \* <<answer>> when the last step was a line arriving, else <<>>
  acc,        \* history: the lines received since `text' was last empty
  ops,        \* collaborator calls made by the last step, in order
  out         \* terminal writes made by the last step, in order

vars == <<mainPc, io, asking, ended, text, database, clients, cur, knex,
          tasks, nLines, line, acc, ops, out>>

Op(o, c, a) == [op |-> o, client |-> c, arg |-> a]
Out(k, v) == [k |-> k, v |-> v]

\* user, password, host and port as getConnection() resolved them (line 151);
\* no statement of main() assigns them afterwards
Credentials == [user |-> "user", password |-> "secret", host |-> "localhost", port |-> "5432"]

\* new pg.Client({ database }): the credentials are left to the pg defaults
ClientByDefaults(db) ==
  [db |-> db,
   params |-> [user |-> "postgres", password |-> "", host |-> "localhost", port |-> "5432"],
   st |-> "connecting", ends |-> 0]

\* new pg.Client({ database, user, password, host, port })
Client(db) == [db |-> db, params |-> Credentials, st |-> "connecting", ends |-> 0]

Task(kind, pc, cmd, c, left, name) ==
  [kind |-> kind, pc |-> pc, cmd |-> cmd, client |-> c, left |-> left, name |-> name]

Prompt == Out("prompt", database)

RemoveAt(s, i) == SubSeq(s, 1, i - 1) \o SubSeq(s, i + 1, Len(s))

\* let io = readline.createInterface(...); let clientDefer = createDefer();
\* let knex; getConnection() suspended at await client.connect()
Init ==
  /\ mainPc = "connecting"
  /\ io = "open"
  /\ asking = FALSE
  /\ ended = FALSE
  /\ text = <<>>
  /\ database = InitialDatabase
  /\ clients = <<Client(InitialDatabase)>>
  /\ cur = 0
  /\ knex = <<>>
  /\ tasks = <<>>
  /\ nLines = 0
  /\ line = <<>>
  /\ acc = <<>>
  /\ ops = <<Op("connect", 1, InitialDatabase)>>
  /\ out = <<>>

\* ------------------------------------------------------------------ main()
\* lines 148-189: getConnection() resolved; clientDefer.resolve(client); loop()
InitialConnectOk ==
  /\ mainPc = "connecting"
  /\ io = "open"
  /\ mainPc' = "loop"
  /\ clients' = [clients EXCEPT ![1].st = "open"]
  /\ cur' = 1
  /\ asking' = TRUE
  /\ line' = <<>>
  /\ ops' = <<>>
  /\ out' = <<Prompt>>
  /\ UNCHANGED <<io, ended, text, database, knex, tasks, nLines, acc>>

\* lines 296-298: getConnection() rejected; catch (error) { console.error(error) }
InitialConnectFail ==
  /\ mainPc = "connecting"
  /\ mainPc' = "failed"
  /\ clients' = [clients EXCEPT ![1].st = "failed"]
  /\ line' = <<>>
  /\ ops' = <<>>
  /\ out' = <<Out("fatal", <<>>)>>
  /\ UNCHANGED <<io, asking, ended, text, database, cur, knex, tasks, nLines, acc>>

\* ----------------------------------------------------------------- getKnex
\* lines 160-174: the handle is created once, from `database' as it is then
getKnex == IF knex = <<>> THEN <<[db |-> database, destroyed |-> FALSE]>> ELSE knex

KnexOps == IF knex = <<>> THEN <<Op("knex", 0, database)>> ELSE <<>>

\* ------------------------------------------------------------------ onLine
\* lines 206-280: onLine() from its call to its first suspension (or to its
\* return when no await is reached), on the accumulated text t.
\* res: "pending" (suspended at an await) | "executed" (returned undefined)
\*      | "not-executed"
Sync(res, txt, db, cls, c, kx, tsk, o, w) ==
  [res |-> res, text |-> txt, database |-> db, clients |-> cls, cur |-> c,
   knex |-> kx, task |-> tsk, ops |-> o, out |-> w]

Pending(t, tsk, o) == Sync("pending", t, database, clients, cur, knex, <<tsk>>, o, <<>>)

onLine(t, evalThrows) ==
  IF StartsWith(t, <<BS, "c">>) THEN
    LET db == MatchDb(t) IN
    IF db # <<>> THEN
      \* connect() on the new client is begun synchronously; end() on the
      \* old one runs in the .then microtask that follows
      LET new == Len(clients) + 1 IN
      Sync("pending", t, db,
           Append([clients EXCEPT ![cur].ends = @ + 1], Client(db)), new, knex,
           <<Task("connect", "connect", t, new, <<>>, <<>>)>>,
           <<Op("connect", new, db), Op("end", cur, <<>>)>>, <<>>)
    ELSE
      Sync("executed", <<>>, database, clients, cur, knex, <<>>, <<>>,
           <<Out("erase", <<>>), Out("connected", database)>>)
  ELSE IF StartsWith(t, <<BS, "l">>) THEN
    Pending(t, Task("list", "column", t, cur, <<>>, <<>>), <<Op("datname", cur, <<>>)>>)
  ELSE IF StartsWith(t, <<BS, "d", "+">>) THEN
    Pending(t, Task("dplus", "tables", t, cur, <<>>, <<>>), <<Op("pgtables", cur, <<>>)>>)
  ELSE IF StartsWith(t, <<BS, "d">>) THEN
    LET tableName == TableNameOf(t) IN
    IF tableName # <<>> THEN
      Sync("pending", t, database, clients, cur, getKnex,
           <<Task("describe", "scan", t, 0, <<>>, tableName)>>,
           KnexOps \o <<Op("scan", 0, getKnex[1].db)>>, <<>>)
    ELSE
      Pending(t, Task("tables", "column", t, cur, <<>>, <<>>),
              <<Op("tablenames", cur, <<>>)>>)
  ELSE IF EndsWith(t, <<";">>) THEN
    IF StartsWith(t, <<"k", "n", "e", "x">>) THEN
      IF evalThrows THEN
        \* eval(text) throws before any await: the catch block runs at once
        Sync("executed", <<>>, database, clients, cur, getKnex, <<>>,
             KnexOps \o <<Op("eval", 0, t)>>,
             <<Out("erase", <<>>), Out("error", t)>>)
      ELSE
        Sync("pending", t, database, clients, cur, getKnex,
             <<Task("knex", "eval", t, 0, <<>>, <<>>)>>,
             KnexOps \o <<Op("eval", 0, t)>>, <<>>)
    ELSE
      Pending(t, Task("raw", "rows", t, cur, <<>>, <<>>), <<Op("raw", cur, t)>>)
  ELSE
    Sync("not-executed", t, database, clients, cur, knex, <<>>, <<>>, <<>>)

\* --------------------------------------------------------------------- end
\* end() as it would be without line 293: the connection is left open
EndKeepsConnection ==
  /\ io' = "closed"
  /\ asking' = FALSE
  /\ ended' = TRUE
  /\ clients' = clients
  /\ knex' = IF knex = <<>> THEN knex ELSE <<[knex[1] EXCEPT !.destroyed = TRUE]>>
  /\ ops' = <<Op("close", 0, <<>>)>>
            \o (IF knex = <<>> THEN <<>> ELSE <<Op("destroy", 0, knex[1].db)>>)

\* end() as it would be if it ended the client of the first clientDefer
\* instead of the current one
EndFirstConnection ==
  /\ io' = "closed"
  /\ asking' = FALSE
  /\ ended' = TRUE
  /\ clients' = [clients EXCEPT ![1].ends = @ + 1]
  /\ knex' = IF knex = <<>> THEN knex ELSE <<[knex[1] EXCEPT !.destroyed = TRUE]>>
  /\ ops' = <<Op("close", 0, <<>>)>>
            \o (IF knex = <<>> THEN <<>> ELSE <<Op("destroy", 0, knex[1].db)>>)
            \o <<Op("end", 1, <<>>)>>

\* lines 291-295: io.close(); clientDefer.promise.then(client => client.end());
\* knex?.destroy()
end ==
  /\ io' = "closed"
  /\ asking' = FALSE
  /\ ended' = TRUE
  /\ clients' = [clients EXCEPT ![cur].ends = @ + 1]
  /\ knex' = IF knex = <<>> THEN knex ELSE <<[knex[1] EXCEPT !.destroyed = TRUE]>>
  /\ ops' = <<Op("close", 0, <<>>)>>
            \o (IF knex = <<>> THEN <<>> ELSE <<Op("destroy", 0, knex[1].db)>>)
            \o <<Op("end", cur, <<>>)>>

\* the text reaches `await eval(text)' (lines 266-269)
CallsEval(t) ==
  /\ ~StartsWith(t, <<BS, "q">>)
  /\ ~StartsWith(t, <<BS, "c">>)
  /\ ~StartsWith(t, <<BS, "l">>)
  /\ ~StartsWith(t, <<BS, "d">>)
  /\ EndsWith(t, <<";">>)
  /\ StartsWith(t, <<"k", "n", "e", "x">>)

\* -------------------------------------------------------------------- loop
\* the lines that make up `text' once answer has been appended (line 179)
Accumulated(answer) == IF text = <<>> THEN <<answer>> ELSE Append(acc, answer)

\* lines 177-188: the io.question callback, with the microtasks it schedules
ReadLine(answer, evalThrows) ==
  /\ mainPc = "loop"
  /\ io = "open"
  /\ asking
  /\ nLines < MaxLines
  /\ Len(tasks) < MaxInFlight
  /\ nLines' = nLines + 1
  /\ line' = <<answer>>
  /\ LET t == Trim(text \o <<NL>> \o answer) IN
     \* evalThrows is an outcome of eval(text): it is drawn only when eval runs
     /\ evalThrows => CallsEval(t)
     /\ IF StartsWith(t, <<BS, "q">>) THEN
         /\ text' = t
         /\ acc' = Accumulated(answer)
         /\ end
         /\ out' = <<>>
         /\ UNCHANGED <<mainPc, database, cur, tasks>>
       ELSE
         LET r == onLine(t, evalThrows) IN
         /\ text' = r.text
         /\ acc' = IF r.text = <<>> THEN <<>> ELSE Accumulated(answer)
         /\ database' = r.database
         /\ clients' = r.clients
         /\ cur' = r.cur
         /\ knex' = r.knex
         /\ tasks' = tasks \o r.task
         /\ ops' = r.ops
         \* loop() asks again before the .then callback of onLine() runs
         /\ out' = r.out \o <<Out("prompt", r.database)>>
                   \o (IF r.res = "executed" THEN <<Out("prompt", r.database)>> ELSE <<>>)
         /\ UNCHANGED <<mainPc, io, asking, ended>>

\* end of input: readline emits 'close'; no handler is registered for it
Eof ==
  /\ mainPc \in {"loop", "failed"}
  /\ io = "open"
  /\ io' = "closed"
  /\ asking' = FALSE
  /\ line' = <<>>
  /\ ops' = <<>>
  /\ out' = <<>>
  /\ UNCHANGED <<mainPc, ended, text, database, clients, cur, knex, tasks, nLines, acc>>

\* ------------------------------------------------- onLine, after an await
\* What every return of a resumed onLine() does: text = '' (lines 221-276),
\* then the .then callback of loop() writes the prompt (lines 181-185)
Return(i, written) ==
  /\ text' = <<>>
  /\ acc' = <<>>
  /\ tasks' = RemoveAt(tasks, i)
  /\ ops' = <<>>
  /\ out' = written \o <<Prompt>>
  /\ line' = <<>>
  /\ UNCHANGED <<mainPc, io, asking, ended, database, cur, knex, nLines>>

\* lines 216-222: await client.connect() resolved
ReconnectOk(i) ==
  /\ tasks[i].pc = "connect"
  /\ clients' = [clients EXCEPT ![tasks[i].client].st = "open"]
  /\ Return(i, <<Out("erase", <<>>), Out("connected", database)>>)

\* lines 153-158 with 225-227 and 259-264: querySingleColumn resolved
SingleColumnOk(i) ==
  /\ tasks[i].pc = "column"
  /\ Return(i, <<Out("erase", <<>>), Out("column", <<>>)>>)
  /\ UNCHANGED clients

\* lines 231-245: the table enumeration resolved with the first n tables
TablesOk(i, n) ==
  /\ tasks[i].pc = "tables"
  /\ IF n = 0 THEN
       Return(i, <<>>)
     ELSE
       /\ tasks' = [tasks EXCEPT ![i].pc = "count", ![i].left = SubSeq(TableList, 1, n)]
       /\ ops' = <<Op("count", tasks[i].client, TableList[1])>>
       /\ out' = <<>>
       /\ line' = <<>>
       /\ UNCHANGED <<mainPc, io, asking, ended, text, database, cur, knex, nLines, acc>>
  /\ UNCHANGED clients

\* lines 238-245: a row-count query resolved
CountOk(i) ==
  /\ tasks[i].pc = "count"
  /\ LET shown == <<Out("erase", <<>>), Out("count", Head(tasks[i].left))>>
         rest == Tail(tasks[i].left)
     IN IF rest = <<>> THEN
          Return(i, shown)
        ELSE
          /\ tasks' = [tasks EXCEPT ![i].left = rest]
          /\ ops' = <<Op("count", tasks[i].client, Head(rest))>>
          /\ out' = shown
          /\ line' = <<>>
          /\ UNCHANGED <<mainPc, io, asking, ended, text, database, cur, knex, nLines, acc>>
  /\ UNCHANGED clients

\* lines 250-264: scanPGTableSchema resolved; found: a table of that name exists
ScanOk(i, found) ==
  /\ tasks[i].pc = "scan"
  /\ Return(i, <<Out("erase", <<>>),
                 Out(IF found THEN "schema" ELSE "notfound", tasks[i].name)>>)
  /\ UNCHANGED clients

\* lines 269-277: await eval(text) resolved
EvalOk(i) ==
  /\ tasks[i].pc = "eval"
  /\ Return(i, <<Out("erase", <<>>), Out("rows", <<>>)>>)
  /\ UNCHANGED clients

\* lines 272-277: await client.query(text) resolved
RawOk(i) ==
  /\ tasks[i].pc = "rows"
  /\ Return(i, <<Out("erase", <<>>), Out("rows", <<>>)>>)
  /\ UNCHANGED clients

\* the catch block as it would be without line 287: text is not reset
ThrowKeepsText(i) ==
  /\ clients' = IF tasks[i].pc = "connect"
                  THEN [clients EXCEPT ![tasks[i].client].st = "failed"]
                  ELSE clients
  /\ text' = text
  /\ acc' = acc
  /\ tasks' = RemoveAt(tasks, i)
  /\ ops' = <<>>
  /\ out' = <<Out("erase", <<>>), Out("error", text), Prompt>>
  /\ line' = <<>>
  /\ UNCHANGED <<mainPc, io, asking, ended, database, cur, knex, nLines>>

\* lines 281-288: the awaited call rejected; the catch block prints
\* {query: text, error} with `text' as it is now, then text = ''
Throw(i) ==
  /\ clients' = IF tasks[i].pc = "connect"
                  THEN [clients EXCEPT ![tasks[i].client].st = "failed"]
                  ELSE clients
  /\ text' = <<>>
  /\ acc' = <<>>
  /\ tasks' = RemoveAt(tasks, i)
  /\ ops' = <<>>
  /\ out' = <<Out("erase", <<>>), Out("error", text), Prompt>>
  /\ line' = <<>>
  /\ UNCHANGED <<mainPc, io, asking, ended, database, cur, knex, nLines>>

\* ------------------------------------------------------------ specification
Next ==
  \/ InitialConnectOk
  \/ InitialConnectFail
  \/ \E answer \in InputLines, evalThrows \in BOOLEAN : ReadLine(answer, evalThrows)
  \/ Eof
  \/ \E i \in 1..Len(tasks) : ReconnectOk(i)
  \/ \E i \in 1..Len(tasks) : SingleColumnOk(i)
  \/ \E i \in 1..Len(tasks), n \in 0..MaxTables : TablesOk(i, n)
  \/ \E i \in 1..Len(tasks) : CountOk(i)
  \/ \E i \in 1..Len(tasks), found \in BOOLEAN : ScanOk(i, found)
  \/ \E i \in 1..Len(tasks) : EvalOk(i)
  \/ \E i \in 1..Len(tasks) : RawOk(i)
  \/ \E i \in 1..Len(tasks) : Throw(i)

Spec == Init /\ [][Next]_vars

\* ------------------------------------------------------------- type check
InFlight == 1..Len(tasks)

TypeOK ==
  /\ mainPc \in {"connecting", "loop", "failed"}
  /\ io \in {"open", "closed"}
  /\ asking \in BOOLEAN
  /\ ended \in BOOLEAN
  /\ cur \in 0..Len(clients)
  /\ Len(tasks) <= MaxInFlight
  /\ nLines \in 0..MaxLines

\* ------------------------------------------------------------------ claims
LineArrives == nLines' = nLines + 1

Printed(kind) == \E j \in 1..Len(out) : out[j].k = kind

\* C1: command dispatch is serialized: at most one onLine invocation has a
\* query or connect outstanding at any time.
C1_OneInFlight == Len(tasks) <= 1

\* C2: a complete statement line arriving while a command is in flight is
\* queued: nothing is issued in the step in which it arrives, and when the
\* in-flight command finishes, text that was received after that command's
\* own text survives the reset of pendingInput.
C2_QueuedNotMerged ==
  [][ /\ (LineArrives /\ tasks # <<>> /\ EndsWith(line'[1], <<";">>)) => ops' = <<>>
      /\ \A i \in 1..Len(tasks) :
           ( /\ tasks' = RemoveAt(tasks, i)
             /\ StartsWith(text, tasks[i].cmd)
             /\ Len(text) > Len(tasks[i].cmd)
             /\ EndsWith(text, <<";">>) ) => text' # <<>>
    ]_vars

\* C3: an empty input line is a no-op: it issues nothing to the server,
\* replaces no connection and prints no result, in every state.
C3_EmptyLineNoOp ==
  [][ (LineArrives /\ line' = << <<>> >>) =>
        /\ ops' = <<>>
        /\ clients' = clients
        /\ cur' = cur
        /\ tasks' = tasks
        /\ \A j \in 1..Len(out') : out'[j].k = "prompt"
    ]_vars

\* C4: whenever the user enters the line \q, end() runs, whatever
\* pendingInput holds at that moment.
C4_QuitAlways ==
  [][ (LineArrives /\ line' = << <<BS, "q">> >>) => ended' ]_vars

\* C5: end() runs only when no command is in flight.
C5_QuitOnlyWhenIdle ==
  [][ (~ended /\ ended') => tasks = <<>> ]_vars

\* C6: when the shell quits on \q it closes the input source, calls end() on
\* the connection current at that moment, destroys the knex handle if one was
\* created, and afterwards reads and dispatches no further input line.
C6_QuitShutsDown ==
  [][ /\ (~ended /\ ended') =>
           /\ line' = << <<BS, "q">> >>
           /\ io' = "closed"
           /\ ~asking'
           /\ cur' = cur
           /\ clients' = [clients EXCEPT ![cur].ends = @ + 1]
           /\ \E j \in 1..Len(ops') : ops'[j] = Op("end", cur, <<>>)
           /\ \E j \in 1..Len(ops') : ops'[j] = Op("close", 0, <<>>)
           /\ knex # <<>> =>
                /\ knex'[1].destroyed
                /\ \E j \in 1..Len(ops') : ops'[j].op = "destroy"
           /\ knex = <<>> => knex' = <<>>
      /\ ended =>
           /\ ended'
           /\ io' = "closed"
           /\ ~asking'
           /\ nLines' = nLines
           /\ line' = <<>>
           /\ Len(tasks') <= Len(tasks)
    ]_vars

C6_Witness ==
  /\ ended
  /\ io = "closed"
  /\ cur > 1
  /\ clients[cur].ends = 1
  /\ knex # <<>>
  /\ knex[1].destroyed

\* C7: a failure of a command executed by onLine never terminates the loop:
\* the error is printed, pendingInput is reset to empty, and the question of
\* loop() stays outstanding so that the next line is read and dispatched.
\* A failure is a step that prints an error, or in which a suspended onLine
\* ends without having shown any result (an empty \d+ listing aside).
C7_FailureKeepsLoop ==
  [][ ( \/ \E j \in 1..Len(out') : out'[j].k = "error"
        \/ \E i \in 1..Len(tasks) :
             /\ tasks' = RemoveAt(tasks, i)
             /\ ~(\E j \in 1..Len(out') : out'[j].k \in
                    {"connected", "column", "count", "schema", "notfound", "rows"})
             /\ ~(tasks[i].pc = "tables") )
      => /\ \E j \in 1..Len(out') : out'[j].k = "error"
         /\ text' = <<>>
         /\ mainPc' = "loop"
         /\ io' = io
         /\ asking' = asking
         /\ ended' = ended
         /\ (io' = "open" => asking')
    ]_vars

C7_Witness ==
  /\ Printed("error")
  /\ text = <<>>
  /\ clients[cur].st = "failed"
  /\ io = "open"
  /\ asking
  /\ nLines < MaxLines

\* C8: the query text printed with an error equals the text of the command
\* whose execution failed.
C8_ErrorAttributed ==
  [][ \A i \in 1..Len(tasks), j \in 1..Len(out') :
        (tasks' = RemoveAt(tasks, i) /\ out'[j].k = "error") => out'[j].v = tasks[i].cmd
    ]_vars

\* C9: if the initial connection fails, the read-eval loop is never entered
\* (no prompt), the input source is closed and the shell terminates.
C9_InitialFailureFatal ==
  mainPc = "failed" => (~asking /\ ~Printed("prompt") /\ io = "closed")

\* C10: after a \c whose new connection fails to open, the current
\* connection is the previous one, still open and never ended, and
\* activeDatabase still names the database of that connection.
C10_ReconnectKeepsOld ==
  [][ \A i \in 1..Len(tasks) :
        ( /\ tasks[i].pc = "connect"
          /\ tasks' = RemoveAt(tasks, i)
          /\ clients'[tasks[i].client].st = "failed" )
        => /\ asking' = asking
           /\ cur' # tasks[i].client
           /\ clients'[cur'].st = "open"
           /\ clients'[cur'].ends = 0
           /\ database' = clients'[cur'].db
    ]_vars

\* the connections that are open or being opened and on which end() has not
\* been called
Live == {c \in 1..Len(clients) : clients[c].st \in {"connecting", "open"} /\ clients[c].ends = 0}

\* C11: connection replacement closes then opens: in every execution of
\* \c name, end() is called on the old connection before connect() is begun
\* on the new one, and no state has two live connections.
C11_ClosesThenOpens ==
  [][ /\ \A j \in 1..Len(ops') :
           (ops'[j].op = "connect" /\ LineArrives) =>
             \E k \in 1..(j - 1) : ops'[k] = Op("end", cur, <<>>)
      /\ Cardinality(Live') <= 1
    ]_vars

\* C12: every query is issued on the connection that is current when it is
\* issued, and never on a connection on which end() has been called.
C12_QueryOnCurrent ==
  [][ \A j \in 1..Len(ops') :
        ops'[j].op \in {"datname", "tablenames", "pgtables", "count", "raw"} =>
          /\ ops'[j].client = cur'
          /\ clients'[ops'[j].client].ends = 0
    ]_vars

\* C13: \d <name> introspects the database that is active when the command
\* is dispatched: after a successful \c other it scans database other, also
\* when the knex handle was created before the switch.
C13_DescribeActiveDatabase ==
  [][ \A j \in 1..Len(ops') :
        (ops'[j].op = "scan" /\ clients'[cur'].st = "open") =>
          /\ ops'[j].arg = database'
          /\ ops'[j].arg = clients'[cur'].db
    ]_vars

\* ---------------------------------------------- classification of one text
ClassifyMaxLines == 1

ClassifyLines ==
  { h \o m \o e :
      h \in { <<>>, <<BS, "q">>, <<BS, "c">>, <<BS, "l">>, <<BS, "d">>,
              <<BS, "d", "+">>, <<"k", "n", "e", "x">>, <<"s">> },
      m \in { <<>>, <<" ">>, <<"t">>, <<" ", "t">>, <<"+">>, <<" ", "x">> },
      e \in { <<>>, <<";">>, <<";", " ">>, <<" ", ";">> } }

\* the shell connected, then lines of every shape entered with no completion
\* in between
NextClassify ==
  \/ InitialConnectOk
  \/ \E answer \in ClassifyLines, evalThrows \in BOOLEAN :
       nLines < ClassifyMaxLines /\ ReadLine(answer, evalThrows)

SpecClassify == Init /\ [][NextClassify]_vars

\* the text onLine sees in a step in which a line arrives
Seen == Trim(text \o <<NL>> \o line'[1])

Issues(o) == \E j \in 1..Len(ops') : ops'[j].op = o

\* what is left of a text that starts with \d once that \d and the first ';'
\* are taken out
Remainder(t) == Trim(RemoveFirst(SubSeq(t, 3, Len(t)), <<";">>))

MetaPrefixed(t) ==
  \E c \in {"q", "c", "l", "d"} : Len(t) >= 2 /\ t[1] = BS /\ t[2] = c

Classified(t, rawOrEval) ==
  /\ (Len(t) >= 2 /\ t[1] = BS /\ t[2] = "q") => (ended' /\ ops'[1].op = "close")
  /\ (Len(t) >= 2 /\ t[1] = BS /\ t[2] = "c") =>
        (Issues("connect") \/ \E j \in 1..Len(out') : out'[j].k = "connected")
  /\ (Len(t) >= 2 /\ t[1] = BS /\ t[2] = "l") => ops' = <<Op("datname", cur, <<>>)>>
  /\ (Len(t) >= 3 /\ t[1] = BS /\ t[2] = "d" /\ t[3] = "+") =>
        ops' = <<Op("pgtables", cur, <<>>)>>
  /\ (Len(t) >= 2 /\ t[1] = BS /\ t[2] = "d" /\ ~(Len(t) >= 3 /\ t[3] = "+")) =>
        IF Remainder(t) # <<>>
          THEN /\ Issues("scan")
               /\ ~Issues("tablenames")
               /\ tasks'[Len(tasks')].name = Remainder(t)
          ELSE ops' = <<Op("tablenames", cur, <<>>)>>
  /\ (~MetaPrefixed(t) /\ t # <<>> /\ t[Len(t)] = ";") => rawOrEval

\* C14 as stated: classification is first-match in the order \q, \c, \l, \d+,
\* \d, trailing ';', and every text with no meta-command prefix that ends
\* with ';' is sent as a raw query.
C14_FirstMatch ==
  [][ LineArrives => Classified(Seen, ops' = <<Op("raw", cur, Seen)>>) ]_vars

\* C14 amended: as above, except that a text with no meta-command prefix that
\* ends with ';' and starts with knex is passed to eval(text) instead of being
\* sent as a raw query.
C14_FirstMatchKnex ==
  [][ LineArrives =>
        Classified(Seen,
          IF Len(Seen) >= 4 /\ SubSeq(Seen, 1, 4) = <<"k", "n", "e", "x">>
            THEN ops'[Len(ops')] = Op("eval", 0, Seen) /\ ~Issues("raw")
            ELSE ops' = <<Op("raw", cur, Seen)>>)
    ]_vars

C14_Witness ==
  /\ line # <<>>
  /\ \E j \in 1..Len(ops) : ops[j] = Op("eval", 0, text)
  /\ text # line[1]

\* ------------------------------------------------- multi-line accumulation
\* l1 \n l2 \n ... \n ln
RECURSIVE Join(_)
Join(ls) ==
  IF ls = <<>> THEN <<>>
  ELSE IF Len(ls) = 1 THEN ls[1]
  ELSE Join(SubSeq(ls, 1, Len(ls) - 1)) \o <<NL>> \o ls[Len(ls)]

\* the lines taken in one at a time, trimming after each
RECURSIVE JoinTrimmingEach(_)
JoinTrimmingEach(ls) ==
  IF ls = <<>> THEN <<>>
  ELSE Trim(JoinTrimmingEach(SubSeq(ls, 1, Len(ls) - 1)) \o <<NL>> \o ls[Len(ls)])

Statement(t) == t # <<>> /\ t[Len(t)] = ";"

\* a step in which ln arrives with no command in flight, l1..ln being the
\* lines received since pendingInput was empty, joined by join: no joined
\* prefix is a meta-command and only the whole ends with ';'
LastLineArrives(join(_)) ==
  LET ls == Accumulated(line'[1]) IN
  /\ LineArrives
  /\ tasks = <<>>
  /\ \A k \in 1..Len(ls) : ~MetaPrefixed(join(SubSeq(ls, 1, k)))
  /\ \A k \in 1..(Len(ls) - 1) : ~Statement(join(SubSeq(ls, 1, k)))

TrimmedJoin(ls) == Trim(Join(ls))

Completes == \E i \in 1..Len(tasks) : tasks' = RemoveAt(tasks, i)

\* C15 as stated: from empty pendingInput with no command in flight, nothing
\* is sent before the line that makes the text end with ';', exactly one
\* query is sent after it, its text is the trimmed newline-join of the lines,
\* and pendingInput is empty once it completes.
C15_MultiLine ==
  [][ /\ LastLineArrives(TrimmedJoin) =>
           LET t == TrimmedJoin(Accumulated(line'[1])) IN
           IF Statement(t)
             THEN ops' = <<Op("raw", cur, t)>> /\ Len(tasks') = 1
             ELSE ops' = <<>> /\ tasks' = <<>>
      /\ Completes => text' = <<>>
    ]_vars

\* C15 amended: the text is what results from taking the lines in one at a
\* time as text = trim(text + \n + line), and the one command issued is
\* eval(text) instead of a raw query when that text starts with knex.
C15_MultiLineTrimmingEach ==
  [][ /\ LastLineArrives(JoinTrimmingEach) =>
           LET t == JoinTrimmingEach(Accumulated(line'[1])) IN
           IF Statement(t)
             THEN /\ IF Len(t) >= 4 /\ SubSeq(t, 1, 4) = <<"k", "n", "e", "x">>
                       THEN ops'[Len(ops')] = Op("eval", 0, t) /\ ~Issues("raw")
                       ELSE ops' = <<Op("raw", cur, t)>> /\ Len(tasks') = 1
                  /\ \A j \in 1..Len(ops') : ops'[j].op \in {"knex", "eval", "raw"}
             ELSE ops' = <<>> /\ tasks' = <<>> /\ text' = t
      /\ Completes => text' = <<>>
    ]_vars

C15_Witness ==
  /\ Len(acc) = 3
  /\ acc[2] = <<>>
  /\ text # TrimmedJoin(acc)
  /\ ops = <<Op("raw", cur, text)>>
  /\ Len(tasks) = 1

\* the prompts left on the current terminal line by the writes o: those
\* written after the last erase or printed message
PromptsLeft(o) ==
  Cardinality({j \in 1..Len(o) : \A k \in j..Len(o) : o[k].k = "prompt"})

\* C16: prompt redraw is atomic with result printing: every message is
\* written right after the prompt has been erased; a step in which a command
\* finishes erases the prompt first and leaves exactly one prompt on the
\* terminal line, and so does a step in which a line is taken in (executed at
\* once or not), for every command including a \d+ over zero tables.
C16_PromptRedraw ==
  [][ /\ \A j \in 1..Len(out') :
           out'[j].k \notin {"erase", "prompt", "fatal"} => (j > 1 /\ out'[j - 1].k = "erase")
      /\ (LineArrives /\ ~ended') => PromptsLeft(out') = 1
      /\ Completes => (out'[1].k = "erase" /\ PromptsLeft(out') = 1)
    ]_vars

\* ------------------------------------------------- \d+ over several tables
MaxListed == 2          \* tables the server reports to a \d+
CountsMaxLines == 3     \* lines read in the \d+ specification

CountLines == {<<>>, <<BS, "d", "+">>}

NextCounts ==
  \/ InitialConnectOk
  \/ \E answer \in CountLines :
       nLines < CountsMaxLines /\ ReadLine(answer, FALSE)
  \/ \E i \in 1..Len(tasks), n \in 0..MaxListed : TablesOk(i, n)
  \/ \E i \in 1..Len(tasks) : CountOk(i)
  \/ \E i \in 1..Len(tasks) : Throw(i)

SpecCounts == Init /\ [][NextCounts]_vars

Shows(kind, v) == \E j \in 1..Len(out') : out'[j] = Out(kind, v)

\* C17: the row-count queries of one \d+ are issued one after the other in
\* enumeration order: the first when the enumeration returns, each later one
\* in the step in which the count of the preceding table returns and is
\* shown; and when a count query fails the command is aborted with an error
\* and no {tablename, count} pair has been shown for it.
C17_CountsSequential ==
  [][ /\ \A j \in 1..Len(ops') : ops'[j].op = "count" =>
           \E i \in 1..Len(tasks) :
             /\ tasks[i].kind = "dplus"
             /\ \/ tasks[i].pc = "tables" /\ ops'[j].arg = TableList[1]
                \/ /\ tasks[i].pc = "count"
                   /\ Len(tasks[i].left) > 1
                   /\ ops'[j].arg = tasks[i].left[2]
                   /\ Shows("count", tasks[i].left[1])
      /\ \A i \in 1..Len(tasks) :
           ( /\ tasks[i].pc = "count"
             /\ tasks' = RemoveAt(tasks, i)
             /\ Shows("error", text) ) => tasks[i].left[1] = TableList[1]
    ]_vars

\* C18: a \c with no parsable identifier changes nothing: nothing is issued,
\* no connection is closed or opened, the active database and the
\* credentials keep their values, the confirmation names the current
\* database and the pending text is cleared; with an identifier, the new
\* connection is made for that database with the credentials unchanged.
C18_ConnectFrame ==
  [][ (LineArrives /\ StartsWith(Seen, <<BS, "c">>)) =>
        IF MatchDb(Seen) = <<>> THEN
          /\ ops' = <<>>
          /\ clients' = clients
          /\ cur' = cur
          /\ database' = database
          /\ tasks' = tasks
          /\ Shows("connected", database)
          /\ text' = <<>>
        ELSE
          /\ Len(clients') = Len(clients) + 1
          /\ cur' = Len(clients')
          /\ database' = MatchDb(Seen)
          /\ clients'[cur'].db = MatchDb(Seen)
          /\ clients'[cur'].params = clients[cur].params
          /\ clients'[cur'].params = Credentials
          /\ Issues("connect")
    ]_vars

\* a \c without a name has just been confirmed after a switch to the other
\* database
C18_Witness ==
  /\ line = << <<BS, "c">> >>
  /\ database = OtherDatabase
  /\ Len(clients) = 2
  /\ clients[cur].params = Credentials
  /\ Printed("connected")
  /\ text = <<>>

\* C19: once the input is closed (by \q or by end of input) and every
\* command in flight has finished, so that no further step can be taken, the
\* active connection has been ended and the knex handle, if any, destroyed.
C19_EofShutsDown ==
  (mainPc = "loop" /\ io = "closed" /\ tasks = <<>>) =>
    /\ clients[cur].ends >= 1
    /\ knex # <<>> => knex[1].destroyed

\* C20: no connection is leaked or closed twice: end() is never called twice
\* on a connection; while the shell runs, every replaced connection has been
\* ended exactly once and the current one not yet; and once \q has taken
\* effect every connection ever created has been ended exactly once.
C20_EndedOnce ==
  /\ \A c \in 1..Len(clients) : clients[c].ends <= 1
  /\ (mainPc = "loop" /\ ~ended) =>
       \A c \in 1..Len(clients) : clients[c].ends = (IF c = cur THEN 0 ELSE 1)
  /\ ended => \A c \in 1..Len(clients) : clients[c].ends = 1

\* \q has taken effect after two \c commands, the first of which failed
C20_Witness ==
  /\ ended
  /\ Len(clients) = 3
  /\ clients[2].st = "failed"
  /\ \A c \in 1..Len(clients) : clients[c].ends = 1
====
